---- MODULE Spec2Model ----
(***************************************************************************)
(* Trade execution and ledger of the RSI trading bot (trader.py, db.py,    *)
(* security.py, schemas.py, config.py).                                    *)
(*                                                                         *)
(* Every "with get_connection()" block of db.py is one SQLite transaction; *)
(* a SELECT that precedes the first INSERT of a block runs in autocommit   *)
(* mode (the sqlite3 module opens the transaction only before the first    *)
(* INSERT/UPDATE), so the SELECT and the INSERT of adjust_balance and of   *)
(* ensure_initial_balance are two separate steps of a worker.  A worker    *)
(* is one in-flight call of _execute_trade; workers share only the store.  *)
(*                                                                         *)
(* Numbers.  Strings are sequences of one-character strings.  Balances,    *)
(* costs and proceeds are integers counting 1/1000 of an asset unit; a     *)
(* request quantity counts 1/10^7 of a unit and the rounded quantity       *)
(* (round(quantity, 6)) counts 1/10^6 of a unit.  The request quantities   *)
(* used are, after rounding, whole multiples of 1/1000, so the arithmetic  *)
(* below is exact.                                                         *)
(***************************************************************************)
EXTENDS Integers, Sequences, FiniteSets, TLC

VARIABLES trades, balances, sequence_tracker, call, outcomes, calls, entry,
          notifications, probe

vars == <<trades, balances, sequence_tracker, call, outcomes, calls, entry,
          notifications, probe>>

store == <<trades, balances, sequence_tracker>>

(***************************************************************************)
(* Bounds of the model.                                                    *)
(***************************************************************************)
NumWorkers == 2

MaxCalls == 2

\* the calls of the specification of the threshold check
MaxThresholdCalls == 2

\* the calls of the specification of racing calls
MaxRaceCalls == 3

NumTxnIds == 3

Procs == 1..NumWorkers

TxnIds == 1..NumTxnIds

(***************************************************************************)
(* config.py                                                               *)
(***************************************************************************)
USDT == <<"U", "S", "D", "T">>

USD == <<"U", "S", "D">>

USDC == <<"U", "S", "D", "C">>

EUR == <<"E", "U", "R">>

BTCUSDT == <<"B", "T", "C">> \o USDT

ETHUSDT == <<"E", "T", "H">> \o USDT

BNBUSDT == <<"B", "N", "B">> \o USDT

TRADING_PAIR == BTCUSDT

RSI_OVERSOLD == 20

RSI_OVERBOUGHT == 80

\* 1 unit of the base asset, in 1/1000
DEFAULT_BASE_BALANCE == 1 * 1000

\* 50000 units of the quote asset, in 1/1000
DEFAULT_QUOTE_BALANCE == 50000 * 1000

\* 0.01, in 1/10^7
DEFAULT_ORDER_QUANTITY == 100000

(***************************************************************************)
(* schemas.py: TradeRequest.  None is the empty string for the string      *)
(* fields and 0 for the numeric ones: validation excludes quantity <= 0    *)
(* and sequence_number < 1, and the code's "x or default" treats an empty  *)
(* string and 0 like None.                                                 *)
(***************************************************************************)
NoPair == <<>>

NoRef == <<>>

NoQty == 0

NoSeq == 0

NoId == 0

Actions == {"BUY", "SELL"}

ReqPairs == {NoPair, <<"u", "s", "d", "t">>}

ReqQuantities == {NoQty, 10000000}

ReqIds == {<<"r1">>, <<"r2">>}

ClientRefs == {NoRef}

SeqNums == {NoSeq, 1, 2}

TradeRequest ==
  [pair : ReqPairs, quantity : ReqQuantities, request_id : ReqIds,
   sequence_number : SeqNums, client_ref : ClientRefs, force : BOOLEAN]

\* the requests of the calls that run one at a time
SequentialRequests ==
  {r \in TradeRequest :
     /\ r.quantity = NoQty
     /\ ~r.force
     /\ r.pair # NoPair => r.request_id = <<"r1">> /\ r.sequence_number = NoSeq}

\* the requests of the calls that meet the threshold check, forced or not
ThresholdRequests ==
  {r \in TradeRequest :
     r.quantity = NoQty /\ r.request_id = <<"r1">>}

\* the racing calls all buy
RaceActions == {"BUY"}

\* quantities around the sixth decimal, in 1/10^7: 0.0000004, 0.0000006
\* and 0.0000014
RoundingQuantities == {4, 6, 14}

\* the requests of the calls with small quantities
RoundingRequests ==
  [pair : {NoPair}, quantity : RoundingQuantities, request_id : {<<"r1">>},
   sequence_number : {NoSeq}, client_ref : ClientRefs, force : {FALSE}]

\* the requests of the racing calls
RaceRequests ==
  {r \in TradeRequest :
     r.pair = NoPair /\ r.quantity = NoQty /\ r.sequence_number = NoSeq /\ ~r.force}

\* the requests of the calls that run concurrently
ConcurrentRequests ==
  {r \in TradeRequest :
     r.pair = NoPair /\ r.quantity # NoQty /\ r.sequence_number = NoSeq /\ ~r.force}

(***************************************************************************)
(* trader.py: the mock market signal                                       *)
(***************************************************************************)
RsiValues == {15, 85}

\* the draws at and around the two thresholds
ThresholdRsiValues ==
  {RSI_OVERSOLD - 5, RSI_OVERSOLD, RSI_OVERBOUGHT, RSI_OVERBOUGHT + 5}

\* the draws of the racing calls
RaceRsiValues == {15}

\* random.uniform(-0.02, 0.02), in percent: the draws of the calls that run
\* one at a time, and of the calls that run concurrently
SequentialVariations == {0, 2}

ConcurrentVariations == {0}

\* round(random.uniform(10, 90), 2): any of the sample points in range
calculate_mock_rsi(samples) == {r \in samples : 10 <= r /\ r <= 90}

mock_prices(pair) ==
  IF pair = BTCUSDT THEN 45000
  ELSE IF pair = ETHUSDT THEN 2500
  ELSE IF pair = BNBUSDT THEN 300
  ELSE 100

get_mock_price(pair, variations) ==
  {mock_prices(pair) + (mock_prices(pair) * v) \div 100 : v \in variations}

(***************************************************************************)
(* security.py                                                             *)
(***************************************************************************)
LowerCase == <<"b", "c", "d", "e", "r", "s", "t", "u">>

UpperCase == <<"B", "C", "D", "E", "R", "S", "T", "U">>

upper(s) ==
  [i \in 1..Len(s) |->
     IF \E k \in 1..Len(LowerCase) : LowerCase[k] = s[i]
     THEN UpperCase[CHOOSE k \in 1..Len(LowerCase) : LowerCase[k] = s[i]]
     ELSE s[i]]

endswith(s, suffix) ==
  /\ Len(s) >= Len(suffix)
  /\ SubSeq(s, Len(s) - Len(suffix) + 1, Len(s)) = suffix

candidates == <<USDT, USD, USDC, EUR>>

parse_pair(pair) ==
  LET p == upper(pair)
      hits == {i \in 1..Len(candidates) :
                 endswith(p, candidates[i]) /\ Len(p) > Len(candidates[i])}
  IN IF hits # {}
     THEN LET i == CHOOSE j \in hits : \A k \in hits : j <= k
          IN [base |-> SubSeq(p, 1, Len(p) - Len(candidates[i])),
              quote |-> candidates[i]]
     ELSE [base |-> p, quote |-> USDT]

\* A payload is a dict: the sequence of its <<key, value>> items in the
\* order they were inserted, no key twice.  The keys of the payload in
\* lexicographic order:
sorted_keys == <<"action", "client_ref", "pair", "quantity", "request_id">>

rank(key) == CHOOSE i \in 1..Len(sorted_keys) : sorted_keys[i] = key

\* mutant: the items are taken in the order they were inserted
insertion_order(items) == items

\* sorted(payload.items()): the keys differ, so the items are ordered by key
sorted(items) ==
  LET n == Len(items)
      position(i) ==
        Cardinality({j \in 1..n : rank(items[j][1]) < rank(items[i][1])}) + 1
  IN [k \in 1..n |-> items[CHOOSE i \in 1..n : position(i) = k]]

\* "|".join(f"{key}:{value}" for key, value in sorted_items)
RECURSIVE join(_)
join(items) ==
  IF items = <<>> THEN <<>>
  ELSE <<items[1][1], ":">> \o items[1][2]
       \o (IF Len(items) > 1 THEN <<"|">> ELSE <<>>)
       \o join(Tail(items))

\* The digest is taken of the normalized string; SHA-256 is modelled as
\* collision-free, so the digest is represented by the string it is taken of.
hash_request_payload(payload) == join(sorted(payload))

(***************************************************************************)
(* Arithmetic of trader.py                                                 *)
(***************************************************************************)
\* round(quantity, 6): 1/10^7 -> 1/10^6, ties to even
Round6(raw) ==
  LET q == raw \div 10
      r == raw % 10
  IN IF r > 5 \/ (r = 5 /\ q % 2 = 1) THEN q + 1 ELSE q

\* the quantity as a balance delta: 1/10^6 -> 1/1000
QuantityAmount(quantity) == quantity \div 1000

\* price * quantity, in 1/1000
Cost(price, quantity) ==
  price * (quantity \div 1000) + (price * (quantity % 1000)) \div 1000

(***************************************************************************)
(* db.py: the store                                                        *)
(***************************************************************************)
\* mutant: one stream per pair, shared by both actions
Stream_pair(pair, action) == <<pair, "">>

Stream(pair, action) == <<pair, action>>

\* mutant: the duplicate check never finds the record
trade_exists_hash_never(request_hash) == FALSE

trade_exists_hash(request_hash) ==
  \E i \in 1..Len(trades) : trades[i].request_hash = request_hash

trade_exists_txn(transaction_id) ==
  \E i \in 1..Len(trades) : trades[i].transaction_id = transaction_id

fetch_trade_by_request_hash(request_hash) ==
  trades[CHOOSE i \in 1..Len(trades) :
           /\ trades[i].request_hash = request_hash
           /\ \A j \in 1..Len(trades) :
                trades[j].request_hash = request_hash => i <= j]

get_last_sequence(pair, action) ==
  IF Stream(pair, action) \in DOMAIN sequence_tracker
  THEN sequence_tracker[Stream(pair, action)]
  ELSE 0

\* mutant: the next number skips one
get_next_sequence_skip(pair, action) == get_last_sequence(pair, action) + 2

get_next_sequence(pair, action) == get_last_sequence(pair, action) + 1

get_balance(asset) ==
  IF asset \in DOMAIN balances THEN balances[asset] ELSE 0

\* INSERT ... ON CONFLICT(asset) DO UPDATE
upsert_balance(asset, value) == (asset :> value) @@ balances

\* INSERT ... ON CONFLICT(pair, action) DO UPDATE
upsert_sequence(pair, action, sequence_number) ==
  (Stream(pair, action) :> sequence_number) @@ sequence_tracker

(***************************************************************************)
(* The locals of one call of _execute_trade                                *)
(***************************************************************************)
NoRequest ==
  [pair |-> NoPair, quantity |-> NoQty, request_id |-> <<>>,
   sequence_number |-> NoSeq, client_ref |-> NoRef, force |-> FALSE]

NoBalances == <<>>

IdleCall ==
  [pc |-> "idle", n |-> 0, action |-> "", request |-> NoRequest,
   pair |-> <<>>, quantity |-> 0, balances |-> NoBalances, rsi |-> 0,
   price |-> 0, request_hash |-> <<>>, sequence_number |-> NoSeq,
   transaction_id |-> NoId, current |-> 0, adjusted |-> 0,
   updated_balances |-> NoBalances]

NoResponse ==
  [outcome |-> "none", pair |-> <<>>, action |-> "", rsi |-> 0, price |-> 0,
   quantity |-> 0, status |-> "", trade_id |-> NoId, transaction_id |-> NoId,
   sequence_number |-> NoSeq, request_id |-> <<>>, request_hash |-> <<>>,
   balances |-> NoBalances, message |-> ""]

Init ==
  /\ trades = <<>>
  /\ balances = <<>>
  /\ sequence_tracker = <<>>
  /\ call = [p \in Procs |-> IdleCall]
  /\ outcomes = <<>>
  /\ calls = 0
  /\ entry = [trades |-> <<>>, balances |-> <<>>, sequence_tracker |-> <<>>]
  /\ notifications = <<>>
  /\ probe = <<>>

_build_trade_response(fields) ==
  fields @@ [NoResponse EXCEPT !.outcome = "response"]

\* notifier.py: the message is made of the pair, the action, the signal and
\* the price of the response
format_trade_notification(pair, action, rsi, price) ==
  [pair |-> pair, action |-> action, rsi |-> rsi, price |-> price]

\* main.py lines 109-116 (buy) and 131-138 (sell): the messages handed to
\* send_telegram_notification once the call has returned this response
send_telegram_notification(response) ==
  IF response.outcome = "response" /\ response.status = "executed"
  THEN Append(notifications,
              format_trade_notification(response.pair, response.action,
                                        response.rsi, response.price))
  ELSE notifications

\* mutant: every exception is answered with 500
status_code_unexpected(response) ==
  IF response.outcome = "response" THEN 200
  ELSE IF response.outcome = "crash" THEN 0
  ELSE 500

\* main.py lines 117-123 (buy) and 139-145 (sell): the HTTP status the caller
\* gets; 0 when the worker died and the caller gets no answer
status_code(response) ==
  IF response.outcome = "response" THEN 200
  ELSE IF response.outcome = "ValueError" THEN 400
  ELSE IF response.outcome = "crash" THEN 0
  ELSE 500

\* The call of worker p ends: what it was asked, its local balances (line
\* 190), the signal and price it sampled, how many of its balance
\* adjustments it committed, what its caller got and with which HTTP status
\* are appended to the outcomes, in the order the calls end.
End(p, response) ==
  /\ outcomes' = Append(outcomes,
                        [n |-> call[p].n, action |-> call[p].action,
                         request |-> call[p].request,
                         balances |-> call[p].balances,
                         rsi |-> call[p].rsi,
                         price |-> call[p].price,
                         adjusted |-> call[p].adjusted,
                         response |-> response,
                         http |-> status_code(response)])
  /\ notifications' = send_telegram_notification(response)
  /\ call' = [call EXCEPT ![p] = IdleCall]

Return(p, response) == End(p, response)

\* an exception leaves _execute_trade: ValueError (main.py: 400) or
\* sqlite3.IntegrityError (main.py: 500)
Raise(p, outcome, message) ==
  End(p, [NoResponse EXCEPT !.outcome = outcome, !.message = message])

Goto(p, label) == call' = [call EXCEPT ![p].pc = label]

(***************************************************************************)
(* trader.py: _execute_trade, lines 186-188                                *)
(***************************************************************************)
StartCall(p, actions, requests, limit) ==
  /\ call[p].pc = "idle"
  /\ calls < limit
  /\ \E action \in actions, request \in requests :
       call' = [call EXCEPT ![p] =
                  [IdleCall EXCEPT
                     !.pc = "ensure_base",
                     !.n = calls + 1,
                     !.action = action,
                     !.request = request,
                     !.pair = upper(IF request.pair # NoPair THEN request.pair
                                    ELSE TRADING_PAIR),
                     !.quantity = Round6(IF request.quantity # NoQty
                                         THEN request.quantity
                                         ELSE DEFAULT_ORDER_QUANTITY)]]
  /\ calls' = calls + 1
  /\ entry' = [trades |-> trades, balances |-> balances,
               sequence_tracker |-> sequence_tracker]
  /\ UNCHANGED <<store, outcomes, notifications, probe>>

(***************************************************************************)
(* trader.py: get_trading_status, lines 57-61: a status call samples the   *)
(* signal and the price of the configured pair and seeds its balances      *)
(***************************************************************************)
StartStatus(p, samples, variations, limit) ==
  /\ call[p].pc = "idle"
  /\ calls < limit
  /\ \E rsi \in calculate_mock_rsi(samples),
        price \in get_mock_price(TRADING_PAIR, variations) :
       call' = [call EXCEPT ![p] =
                  [IdleCall EXCEPT
                     !.pc = "ensure_base",
                     !.n = calls + 1,
                     !.action = "STATUS",
                     !.pair = TRADING_PAIR,
                     !.rsi = rsi,
                     !.price = price]]
  /\ calls' = calls + 1
  /\ entry' = [trades |-> trades, balances |-> balances,
               sequence_tracker |-> sequence_tracker]
  /\ UNCHANGED <<store, outcomes, notifications, probe>>

(***************************************************************************)
(* trader.py: _prepare_balances; db.py: ensure_initial_balance             *)
(***************************************************************************)
EnsureAsset(c) ==
  IF c.pc \in {"ensure_base", "ensure_base_insert"}
  THEN parse_pair(c.pair).base ELSE parse_pair(c.pair).quote

EnsureAmount(c) ==
  IF c.pc \in {"ensure_base", "ensure_base_insert"}
  THEN DEFAULT_BASE_BALANCE ELSE DEFAULT_QUOTE_BALANCE

\* SELECT balance FROM balances WHERE asset = ?
EnsureSelect(p) ==
  /\ call[p].pc \in {"ensure_base", "ensure_quote"}
  /\ LET row == EnsureAsset(call[p]) \in DOMAIN balances
         base == call[p].pc = "ensure_base"
     IN IF row
        THEN Goto(p, IF base THEN "ensure_quote" ELSE "get_balances")
        ELSE Goto(p, IF base THEN "ensure_base_insert" ELSE "ensure_quote_insert")
  /\ UNCHANGED <<store, outcomes, notifications, calls, entry, probe>>

\* mutant: INSERT OR REPLACE INTO balances
EnsureInsert_replace(p) ==
  /\ call[p].pc \in {"ensure_base_insert", "ensure_quote_insert"}
  /\ LET asset == EnsureAsset(call[p])
         base == call[p].pc = "ensure_base_insert"
     IN /\ balances' = upsert_balance(asset, EnsureAmount(call[p]))
        /\ Goto(p, IF base THEN "ensure_quote" ELSE "get_balances")
        /\ UNCHANGED <<outcomes, notifications>>
  /\ UNCHANGED <<trades, sequence_tracker, calls, entry, probe>>

\* INSERT INTO balances: the primary key rejects a second row of the asset
EnsureInsert(p) ==
  /\ call[p].pc \in {"ensure_base_insert", "ensure_quote_insert"}
  /\ LET asset == EnsureAsset(call[p])
         base == call[p].pc = "ensure_base_insert"
     IN IF asset \in DOMAIN balances
        THEN /\ Raise(p, "IntegrityError", "balances.asset")
             /\ UNCHANGED balances
        ELSE /\ balances' = balances @@ (asset :> EnsureAmount(call[p]))
             /\ Goto(p, IF base THEN "ensure_quote" ELSE "get_balances")
             /\ UNCHANGED <<outcomes, notifications>>
  /\ UNCHANGED <<trades, sequence_tracker, calls, entry, probe>>

(***************************************************************************)
(* trader.py: _execute_trade, lines 190-203                                *)
(***************************************************************************)
\* mutant: the sequence number and the force flag are part of the fingerprint
Payload_whole(c) ==
  <<<<"pair", c.pair>>,
    <<"action", <<c.action>>>>,
    <<"quantity", <<ToString(c.quantity)>>>>,
    <<"request_id", c.request.request_id
                      \o <<ToString(c.request.sequence_number),
                           ToString(c.request.force)>>>>,
    <<"client_ref", c.request.client_ref>>>>

Payload(c) ==
  <<<<"pair", c.pair>>,
    <<"action", <<c.action>>>>,
    <<"quantity", <<ToString(c.quantity)>>>>,
    <<"request_id", c.request.request_id>>,
    <<"client_ref", c.request.client_ref>>>>

GetBalances(p, samples, variations) ==
  /\ call[p].pc = "get_balances"
  /\ call[p].action \in Actions
  /\ \E rsi \in calculate_mock_rsi(samples), price \in get_mock_price(call[p].pair, variations) :
       call' = [call EXCEPT ![p] =
                  [@ EXCEPT !.pc = "trade_exists",
                            !.balances = balances,
                            !.rsi = rsi,
                            !.price = price,
                            !.request_hash = hash_request_payload(Payload(call[p]))]]
  /\ UNCHANGED <<store, outcomes, notifications, calls, entry, probe>>

(***************************************************************************)
(* trader.py: get_trading_status, lines 61-73: the balances read by        *)
(* _prepare_balances are returned (the trade summary is a read the model   *)
(* leaves out); main.py: status_endpoint answers 200                       *)
(***************************************************************************)
StatusResponse(c) ==
  [NoResponse EXCEPT !.outcome = "response",
                     !.pair = c.pair,
                     !.rsi = c.rsi,
                     !.price = c.price,
                     !.balances = balances]

GetStatusBalances(p) ==
  /\ call[p].pc = "get_balances"
  /\ call[p].action = "STATUS"
  /\ Return(p, StatusResponse(call[p]))
  /\ UNCHANGED <<store, calls, entry, probe>>

(***************************************************************************)
(* trader.py: _execute_trade, lines 205-223                                *)
(***************************************************************************)
TradeExistsHash(p) ==
  /\ call[p].pc = "trade_exists"
  /\ IF trade_exists_hash(call[p].request_hash)
     THEN Goto(p, "fetch_trade")
     ELSE Goto(p, "validate_sequence")
  /\ UNCHANGED <<store, outcomes, notifications, calls, entry, probe>>

\* mutant: the replay answers with the signal, the price and the balances of
\* the replaying call
DuplicateResponse_fresh(c, existing) ==
  _build_trade_response(
    [pair |-> existing.pair, action |-> existing.action, rsi |-> c.rsi,
     price |-> c.price, quantity |-> existing.quantity,
     status |-> existing.status, trade_id |-> existing.id,
     transaction_id |-> existing.transaction_id,
     sequence_number |-> existing.sequence_number,
     request_id |-> c.request.request_id, request_hash |-> c.request_hash,
     balances |-> c.balances, message |-> "duplicate"])

DuplicateResponse(c, existing) ==
  _build_trade_response(
    [pair |-> existing.pair, action |-> existing.action, rsi |-> existing.rsi,
     price |-> existing.price, quantity |-> existing.quantity,
     status |-> existing.status, trade_id |-> existing.id,
     transaction_id |-> existing.transaction_id,
     sequence_number |-> existing.sequence_number,
     request_id |-> c.request.request_id, request_hash |-> c.request_hash,
     balances |-> existing.metadata.balances, message |-> "duplicate"])

FetchTrade(p) ==
  /\ call[p].pc = "fetch_trade"
  /\ Return(p, DuplicateResponse(call[p],
                                 fetch_trade_by_request_hash(call[p].request_hash)))
  /\ UNCHANGED <<store, calls, entry, probe>>

(***************************************************************************)
(* trader.py: _validate_sequence, _check_rsi_conditions                    *)
(***************************************************************************)
\* mutant: a number ahead of the expected one is accepted
_validate_sequence_ahead(pair, action, sequence_number) ==
  LET expected_next == get_next_sequence(pair, action)
  IN IF sequence_number = NoSeq THEN [error |-> "", value |-> expected_next]
     ELSE IF sequence_number < expected_next
          THEN [error |-> "stale", value |-> NoSeq]
     ELSE [error |-> "", value |-> sequence_number]

\* "stale" and "gap" are the two ValueErrors; otherwise the final value
_validate_sequence(pair, action, sequence_number) ==
  LET expected_next == get_next_sequence(pair, action)
  IN IF sequence_number = NoSeq THEN [error |-> "", value |-> expected_next]
     ELSE IF sequence_number < expected_next
          THEN [error |-> "stale", value |-> NoSeq]
     ELSE IF sequence_number > expected_next
          THEN [error |-> "gap", value |-> NoSeq]
     ELSE [error |-> "", value |-> sequence_number]

\* mutant: a signal equal to the threshold passes
_check_rsi_conditions_at(action, rsi, force) ==
  IF force THEN ""
  ELSE IF action = "BUY" /\ rsi > RSI_OVERSOLD THEN "rsi"
  ELSE IF action = "SELL" /\ rsi < RSI_OVERBOUGHT THEN "rsi"
  ELSE ""

\* the violation message, "" for None
_check_rsi_conditions(action, rsi, force) ==
  IF force THEN ""
  ELSE IF action = "BUY" /\ rsi >= RSI_OVERSOLD THEN "rsi"
  ELSE IF action = "SELL" /\ rsi <= RSI_OVERBOUGHT THEN "rsi"
  ELSE ""

RejectedResponse(c, sequence_number, message) ==
  _build_trade_response(
    [pair |-> c.pair, action |-> c.action, rsi |-> c.rsi, price |-> c.price,
     quantity |-> c.quantity, status |-> "rejected", trade_id |-> NoId,
     transaction_id |-> NoId, sequence_number |-> sequence_number,
     request_id |-> c.request.request_id, request_hash |-> c.request_hash,
     balances |-> c.balances, message |-> message])

\* mutant: a threshold rejection consumes the sequence number it reports
ValidateSequence_consume(p) ==
  /\ call[p].pc = "validate_sequence"
  /\ LET c == call[p]
         v == _validate_sequence(c.pair, c.action, c.request.sequence_number)
         rsi_violation == _check_rsi_conditions(c.action, c.rsi, c.request.force)
     IN IF v.error # ""
        THEN /\ Raise(p, "ValueError", v.error)
             /\ UNCHANGED sequence_tracker
        ELSE IF rsi_violation # ""
        THEN /\ Return(p, RejectedResponse(c, v.value, rsi_violation))
             /\ sequence_tracker' = upsert_sequence(c.pair, c.action, v.value)
        ELSE /\ call' = [call EXCEPT ![p] =
                           [@ EXCEPT !.pc = "validate_balances",
                                     !.sequence_number = v.value]]
             /\ UNCHANGED <<outcomes, notifications, sequence_tracker>>
  /\ UNCHANGED <<trades, balances, calls, entry, probe>>

\* mutant: a sequence error records the number the caller supplied
ValidateSequence_advance(p) ==
  /\ call[p].pc = "validate_sequence"
  /\ LET c == call[p]
         v == _validate_sequence(c.pair, c.action, c.request.sequence_number)
         rsi_violation == _check_rsi_conditions(c.action, c.rsi, c.request.force)
     IN IF v.error # ""
        THEN /\ Raise(p, "ValueError", v.error)
             /\ sequence_tracker' =
                  upsert_sequence(c.pair, c.action, c.request.sequence_number)
        ELSE IF rsi_violation # ""
        THEN /\ Return(p, RejectedResponse(c, v.value, rsi_violation))
             /\ UNCHANGED sequence_tracker
        ELSE /\ call' = [call EXCEPT ![p] =
                           [@ EXCEPT !.pc = "validate_balances",
                                     !.sequence_number = v.value]]
             /\ UNCHANGED <<outcomes, notifications, sequence_tracker>>
  /\ UNCHANGED <<trades, balances, calls, entry, probe>>

\* mutant: the threshold check comes before the sequence validation
ValidateSequence_threshold_first(p) ==
  /\ call[p].pc = "validate_sequence"
  /\ LET c == call[p]
         v == _validate_sequence(c.pair, c.action, c.request.sequence_number)
         rsi_violation == _check_rsi_conditions(c.action, c.rsi, c.request.force)
     IN IF rsi_violation # ""
        THEN Return(p, RejectedResponse(c, v.value, rsi_violation))
        ELSE IF v.error # ""
        THEN Raise(p, "ValueError", v.error)
        ELSE /\ call' = [call EXCEPT ![p] =
                           [@ EXCEPT !.pc = "validate_balances",
                                     !.sequence_number = v.value]]
             /\ UNCHANGED <<outcomes, notifications>>
  /\ UNCHANGED <<store, calls, entry, probe>>

\* mutant: a threshold rejection is recorded under its fingerprint
ValidateSequence_durable(p) ==
  /\ call[p].pc = "validate_sequence"
  /\ LET c == call[p]
         v == _validate_sequence(c.pair, c.action, c.request.sequence_number)
         rsi_violation == _check_rsi_conditions(c.action, c.rsi, c.request.force)
     IN IF v.error # ""
        THEN /\ Raise(p, "ValueError", v.error)
             /\ UNCHANGED trades
        ELSE IF rsi_violation # ""
        THEN /\ Return(p, RejectedResponse(c, v.value, rsi_violation))
             /\ trades' = Append(trades,
                                 [id |-> Len(trades) + 1,
                                  transaction_id |-> NoId,
                                  sequence_number |-> v.value,
                                  request_hash |-> c.request_hash,
                                  pair |-> c.pair, action |-> c.action,
                                  rsi |-> c.rsi, price |-> c.price,
                                  quantity |-> c.quantity,
                                  status |-> "rejected",
                                  metadata |-> [balances |-> c.balances,
                                                request_id |-> c.request.request_id,
                                                client_ref |-> c.request.client_ref]])
        ELSE /\ call' = [call EXCEPT ![p] =
                           [@ EXCEPT !.pc = "validate_balances",
                                     !.sequence_number = v.value]]
             /\ UNCHANGED <<trades, outcomes, notifications>>
  /\ UNCHANGED <<balances, sequence_tracker, calls, entry, probe>>

\* trader.py lines 225-244
ValidateSequence(p) ==
  /\ call[p].pc = "validate_sequence"
  /\ LET c == call[p]
         v == _validate_sequence(c.pair, c.action, c.request.sequence_number)
         rsi_violation == _check_rsi_conditions(c.action, c.rsi, c.request.force)
     IN IF v.error # ""
        THEN Raise(p, "ValueError", v.error)
        ELSE IF rsi_violation # ""
        THEN Return(p, RejectedResponse(c, v.value, rsi_violation))
        ELSE /\ call' = [call EXCEPT ![p] =
                           [@ EXCEPT !.pc = "validate_balances",
                                     !.sequence_number = v.value]]
             /\ UNCHANGED <<outcomes, notifications>>
  /\ UNCHANGED <<store, calls, entry, probe>>

(***************************************************************************)
(* security.py: generate_transaction_id.  The token is random and only     *)
(* ever compared for equality, so one unused id stands for all of them:    *)
(* the draw is an id a record or a call in flight already holds, or the    *)
(* least id nobody holds.                                                  *)
(***************************************************************************)
HeldTxnIds ==
  {trades[i].transaction_id : i \in 1..Len(trades)}
    \cup ({call[p].transaction_id : p \in Procs} \ {NoId})

generate_transaction_id ==
  LET unused == TxnIds \ HeldTxnIds
  IN HeldTxnIds
       \cup {t \in unused : \A u \in unused : t <= u}

(***************************************************************************)
(* trader.py: _validate_balances, and lines 246-265                        *)
(***************************************************************************)
\* the error message, "" for None
_validate_balances(action, pair, quantity, price) ==
  LET assets == parse_pair(pair)
  IN IF action = "BUY"
     THEN IF get_balance(assets.quote) < Cost(price, quantity)
          THEN "funds" ELSE ""
     ELSE IF get_balance(assets.base) < QuantityAmount(quantity)
          THEN "funds" ELSE ""

\* mutant: a rejection for funds is recorded, with status rejected
ValidateBalances_durable(p) ==
  /\ call[p].pc = "validate_balances"
  /\ LET c == call[p]
         balance_error == _validate_balances(c.action, c.pair, c.quantity, c.price)
     IN IF balance_error # ""
        THEN /\ Return(p, RejectedResponse(c, c.sequence_number, balance_error))
             /\ trades' = Append(trades,
                                 [id |-> Len(trades) + 1,
                                  transaction_id |-> NoId,
                                  sequence_number |-> c.sequence_number,
                                  request_hash |-> c.request_hash,
                                  pair |-> c.pair, action |-> c.action,
                                  rsi |-> c.rsi, price |-> c.price,
                                  quantity |-> c.quantity,
                                  status |-> "rejected",
                                  metadata |-> [balances |-> c.balances,
                                                request_id |-> c.request.request_id,
                                                client_ref |-> c.request.client_ref]])
        ELSE /\ \E transaction_id \in generate_transaction_id :
                  call' = [call EXCEPT ![p] =
                             [@ EXCEPT !.pc = "trade_exists_txn",
                                       !.transaction_id = transaction_id]]
             /\ UNCHANGED <<trades, outcomes, notifications>>
  /\ UNCHANGED <<balances, sequence_tracker, calls, entry, probe>>

ValidateBalances(p) ==
  /\ call[p].pc = "validate_balances"
  /\ LET c == call[p]
         balance_error == _validate_balances(c.action, c.pair, c.quantity, c.price)
     IN IF balance_error # ""
        THEN Return(p, RejectedResponse(c, c.sequence_number, balance_error))
        ELSE /\ \E transaction_id \in generate_transaction_id :
                  call' = [call EXCEPT ![p] =
                             [@ EXCEPT !.pc = "trade_exists_txn",
                                       !.transaction_id = transaction_id]]
             /\ UNCHANGED <<outcomes, notifications>>
  /\ UNCHANGED <<store, calls, entry, probe>>

\* trader.py lines 266-268
TradeExistsTxn(p) ==
  /\ call[p].pc = "trade_exists_txn"
  /\ IF trade_exists_txn(call[p].transaction_id)
     THEN \E transaction_id \in generate_transaction_id :
            call' = [call EXCEPT ![p] =
                       [@ EXCEPT !.pc = "adjust_select",
                                 !.transaction_id = transaction_id]]
     ELSE Goto(p, "adjust_select")
  /\ UNCHANGED <<store, outcomes, notifications, calls, entry, probe>>

(***************************************************************************)
(* trader.py: _apply_balance_updates; db.py: adjust_balance                *)
(***************************************************************************)
\* the two adjust_balance calls, in order
_apply_balance_updates(action, pair, quantity, price) ==
  LET assets == parse_pair(pair)
  IN IF action = "BUY"
     THEN <<[asset |-> assets.quote, delta |-> 0 - Cost(price, quantity)],
            [asset |-> assets.base, delta |-> QuantityAmount(quantity)]>>
     ELSE <<[asset |-> assets.base, delta |-> 0 - QuantityAmount(quantity)],
            [asset |-> assets.quote, delta |-> Cost(price, quantity)]>>

Adjustment(c) ==
  _apply_balance_updates(c.action, c.pair, c.quantity, c.price)[c.adjusted + 1]

\* SELECT balance FROM balances WHERE asset = ?
AdjustSelect(p) ==
  /\ call[p].pc = "adjust_select"
  /\ call' = [call EXCEPT ![p] =
                [@ EXCEPT !.pc = "adjust_upsert",
                          !.current = get_balance(Adjustment(call[p]).asset)]]
  /\ UNCHANGED <<store, outcomes, notifications, calls, entry, probe>>

new_balance(current, delta) == current + delta

\* INSERT INTO balances ... ON CONFLICT(asset) DO UPDATE
AdjustUpsert(p) ==
  /\ call[p].pc = "adjust_upsert"
  /\ LET a == Adjustment(call[p])
     IN balances' = upsert_balance(a.asset, new_balance(call[p].current, a.delta))
  /\ call' = [call EXCEPT ![p] =
                [@ EXCEPT !.pc = IF call[p].adjusted = 0 THEN "adjust_select"
                                 ELSE "get_balance_snapshot",
                          !.adjusted = @ + 1,
                          !.current = 0]]
  /\ UNCHANGED <<trades, sequence_tracker, outcomes, notifications, calls, entry, probe>>

\* trader.py line 141
GetBalanceSnapshot(p) ==
  /\ call[p].pc = "get_balance_snapshot"
  /\ call' = [call EXCEPT ![p] =
                [@ EXCEPT !.pc = "record_trade", !.updated_balances = balances]]
  /\ UNCHANGED <<store, outcomes, notifications, calls, entry, probe>>

(***************************************************************************)
(* db.py: record_trade; trader.py lines 272-310                            *)
(***************************************************************************)
TradeRow(c) ==
  [id |-> Len(trades) + 1,
   transaction_id |-> c.transaction_id,
   sequence_number |-> c.sequence_number,
   request_hash |-> c.request_hash,
   pair |-> c.pair, action |-> c.action, rsi |-> c.rsi, price |-> c.price,
   quantity |-> c.quantity, status |-> "executed",
   metadata |-> [balances |-> c.updated_balances,
                 request_id |-> c.request.request_id,
                 client_ref |-> c.request.client_ref]]

\* mutant: trades.transaction_id without its UNIQUE constraint
insert_allowed_any(row) == TRUE

\* the UNIQUE constraint of trades.transaction_id
insert_allowed(row) ==
  \A i \in 1..Len(trades) : trades[i].transaction_id # row.transaction_id

ExecutedResponse(c, trade_id) ==
  _build_trade_response(
    [pair |-> c.pair, action |-> c.action, rsi |-> c.rsi, price |-> c.price,
     quantity |-> c.quantity, status |-> "executed", trade_id |-> trade_id,
     transaction_id |-> c.transaction_id,
     sequence_number |-> c.sequence_number,
     request_id |-> c.request.request_id, request_hash |-> c.request_hash,
     balances |-> c.updated_balances, message |-> "ok"])

RecordTrade(p) ==
  /\ call[p].pc = "record_trade"
  /\ LET c == call[p]
         row == TradeRow(c)
     IN IF insert_allowed(row)
        THEN /\ trades' = Append(trades, row)
             /\ sequence_tracker' =
                  upsert_sequence(c.pair, c.action, c.sequence_number)
             /\ Return(p, ExecutedResponse(c, row.id))
        ELSE /\ Raise(p, "IntegrityError", "trades.transaction_id")
             /\ UNCHANGED <<trades, sequence_tracker>>
  /\ UNCHANGED <<balances, calls, entry, probe>>

(***************************************************************************)
(* The worker dies in the middle of a call: what it committed stays.       *)
(***************************************************************************)
Crash(p) ==
  /\ call[p].pc # "idle"
  /\ Raise(p, "crash", "")
  /\ UNCHANGED <<store, calls, entry, probe>>

\* workers run concurrently and interleave at every store operation
Next ==
  \E p \in Procs :
    \/ StartCall(p, Actions, ConcurrentRequests, MaxCalls)
    \/ EnsureSelect(p)
    \/ EnsureInsert(p)
    \/ GetBalances(p, RsiValues, ConcurrentVariations)
    \/ TradeExistsHash(p)
    \/ FetchTrade(p)
    \/ ValidateSequence(p)
    \/ ValidateBalances(p)
    \/ TradeExistsTxn(p)
    \/ AdjustSelect(p)
    \/ AdjustUpsert(p)
    \/ GetBalanceSnapshot(p)
    \/ RecordTrade(p)

Spec == Init /\ [][Next]_vars

\* execute calls and status calls of concurrent workers
NextStatus ==
  \E p \in Procs :
    \/ StartCall(p, Actions, ConcurrentRequests, MaxCalls)
    \/ StartStatus(p, RsiValues, ConcurrentVariations, MaxCalls)
    \/ EnsureSelect(p)
    \/ EnsureInsert(p)
    \/ GetBalances(p, RsiValues, ConcurrentVariations)
    \/ GetStatusBalances(p)
    \/ TradeExistsHash(p)
    \/ FetchTrade(p)
    \/ ValidateSequence(p)
    \/ ValidateBalances(p)
    \/ TradeExistsTxn(p)
    \/ AdjustSelect(p)
    \/ AdjustUpsert(p)
    \/ GetBalanceSnapshot(p)
    \/ RecordTrade(p)

SpecStatus == Init /\ [][NextStatus]_vars

(***************************************************************************)
(* db.py: ensure_initialized, run by a worker process on its first         *)
(* get_connection: a trades table that lacks one of the security columns   *)
(* is dropped; the tables are created if they do not exist.                *)
(***************************************************************************)
\* the columns of the trades table that CREATE TABLE makes (lines 70-83)
trades_columns ==
  {"id", "transaction_id", "sequence_number", "request_hash", "timestamp",
   "pair", "action", "rsi", "price", "quantity", "status", "metadata"}

\* PRAGMA table_info(trades): the store was constructed by this program
table_info == trades_columns

\* mutant: every existing trades table counts as legacy
legacy_schema_any(columns) == columns # {}

\* lines 62-63
legacy_schema(columns) ==
  /\ columns # {}
  /\ {"transaction_id", "request_hash", "sequence_number"} \ columns # {}

\* a worker process that has not opened the store yet
ColdCall == [IdleCall EXCEPT !.pc = "cold"]

InitCold ==
  /\ trades = <<>>
  /\ balances = <<>>
  /\ sequence_tracker = <<>>
  /\ call = [p \in Procs |-> ColdCall]
  /\ outcomes = <<>>
  /\ calls = 0
  /\ entry = [trades |-> <<>>, balances |-> <<>>, sequence_tracker |-> <<>>]
  /\ notifications = <<>>
  /\ probe = <<>>

\* entry is the store as the starting worker found it
EnsureInitialized(p) ==
  /\ call[p].pc = "cold"
  /\ trades' = IF legacy_schema(table_info) THEN <<>> ELSE trades
  /\ call' = [call EXCEPT ![p] = IdleCall]
  /\ entry' = [trades |-> trades, balances |-> balances,
               sequence_tracker |-> sequence_tracker]
  /\ UNCHANGED <<balances, sequence_tracker, outcomes, notifications, calls, probe>>

\* worker processes start at any time and serve execute and status calls
NextCold ==
  \E p \in Procs :
    \/ EnsureInitialized(p)
    \/ StartCall(p, Actions, RaceRequests, MaxCalls)
    \/ StartStatus(p, RsiValues, ConcurrentVariations, MaxCalls)
    \/ EnsureSelect(p)
    \/ EnsureInsert(p)
    \/ GetBalances(p, RsiValues, ConcurrentVariations)
    \/ GetStatusBalances(p)
    \/ TradeExistsHash(p)
    \/ FetchTrade(p)
    \/ ValidateSequence(p)
    \/ ValidateBalances(p)
    \/ TradeExistsTxn(p)
    \/ AdjustSelect(p)
    \/ AdjustUpsert(p)
    \/ GetBalanceSnapshot(p)
    \/ RecordTrade(p)

SpecCold == InitCold /\ [][NextCold]_vars

\* calls run one at a time: one worker takes them one after the other
OneWorker == {p \in Procs : \A q \in Procs : p <= q}

NextSeq ==
  \E p \in OneWorker :
    \/ StartCall(p, Actions, SequentialRequests, MaxCalls)
    \/ EnsureSelect(p)
    \/ EnsureInsert(p)
    \/ GetBalances(p, RsiValues, SequentialVariations)
    \/ TradeExistsHash(p)
    \/ FetchTrade(p)
    \/ ValidateSequence(p)
    \/ ValidateBalances(p)
    \/ TradeExistsTxn(p)
    \/ AdjustSelect(p)
    \/ AdjustUpsert(p)
    \/ GetBalanceSnapshot(p)
    \/ RecordTrade(p)

SpecSeq == Init /\ [][NextSeq]_vars

\* calls run one at a time and a worker may die at any point of its call
NextCrash ==
  \E p \in OneWorker :
    \/ StartCall(p, Actions, SequentialRequests, MaxCalls)
    \/ EnsureSelect(p)
    \/ EnsureInsert(p)
    \/ GetBalances(p, RsiValues, SequentialVariations)
    \/ TradeExistsHash(p)
    \/ FetchTrade(p)
    \/ ValidateSequence(p)
    \/ ValidateBalances(p)
    \/ TradeExistsTxn(p)
    \/ AdjustSelect(p)
    \/ AdjustUpsert(p)
    \/ GetBalanceSnapshot(p)
    \/ RecordTrade(p)
    \/ Crash(p)

SpecCrash == Init /\ [][NextCrash]_vars

\* three calls race on the default pair with the default quantity
NextRace ==
  \E p \in Procs :
    \/ StartCall(p, RaceActions, RaceRequests, MaxRaceCalls)
    \/ EnsureSelect(p)
    \/ EnsureInsert(p)
    \/ GetBalances(p, RaceRsiValues, ConcurrentVariations)
    \/ TradeExistsHash(p)
    \/ FetchTrade(p)
    \/ ValidateSequence(p)
    \/ ValidateBalances(p)
    \/ TradeExistsTxn(p)
    \/ AdjustSelect(p)
    \/ AdjustUpsert(p)
    \/ GetBalanceSnapshot(p)
    \/ RecordTrade(p)

SpecRace == Init /\ [][NextRace]_vars

\* one worker, signals at and around the thresholds, force set or not
NextThreshold ==
  \E p \in OneWorker :
    \/ StartCall(p, Actions, ThresholdRequests, MaxThresholdCalls)
    \/ EnsureSelect(p)
    \/ EnsureInsert(p)
    \/ GetBalances(p, ThresholdRsiValues, SequentialVariations)
    \/ TradeExistsHash(p)
    \/ FetchTrade(p)
    \/ ValidateSequence(p)
    \/ ValidateBalances(p)
    \/ TradeExistsTxn(p)
    \/ AdjustSelect(p)
    \/ AdjustUpsert(p)
    \/ GetBalanceSnapshot(p)
    \/ RecordTrade(p)

SpecThreshold == Init /\ [][NextThreshold]_vars

\* calls with small quantities, one at a time
NextRounding ==
  \E p \in OneWorker :
    \/ StartCall(p, Actions, RoundingRequests, MaxCalls)
    \/ EnsureSelect(p)
    \/ EnsureInsert(p)
    \/ GetBalances(p, RsiValues, SequentialVariations)
    \/ TradeExistsHash(p)
    \/ FetchTrade(p)
    \/ ValidateSequence(p)
    \/ ValidateBalances(p)
    \/ TradeExistsTxn(p)
    \/ AdjustSelect(p)
    \/ AdjustUpsert(p)
    \/ GetBalanceSnapshot(p)
    \/ RecordTrade(p)

SpecRounding == Init /\ [][NextRounding]_vars

(***************************************************************************)
(* security.py: hash_request_payload on its own.  probe holds two          *)
(* payloads, each a dict built in some insertion order, and the digests    *)
(* computed of them so far.                                                *)
(***************************************************************************)
NoDigest == <<>>

\* the payloads of trader.py lines 196-202 for the default pair and quantity
ProbeItems ==
  {Payload([IdleCall EXCEPT !.pair = TRADING_PAIR, !.action = action,
                            !.quantity = Round6(DEFAULT_ORDER_QUANTITY),
                            !.request.request_id = request_id]) :
     action \in Actions, request_id \in {<<"r1">>}}

\* the dicts with these items, in every insertion order
Orders(items) ==
  {[k \in 1..Len(items) |-> items[f[k]]] : f \in Permutations(1..Len(items))}

ProbePayloads == UNION {Orders(items) : items \in ProbeItems}

InitHash ==
  /\ trades = <<>>
  /\ balances = <<>>
  /\ sequence_tracker = <<>>
  /\ call = [p \in Procs |-> IdleCall]
  /\ outcomes = <<>>
  /\ calls = 0
  /\ entry = [trades |-> <<>>, balances |-> <<>>, sequence_tracker |-> <<>>]
  /\ notifications = <<>>
  /\ probe \in [first : ProbePayloads, second : ProbePayloads,
                 digest_first : {NoDigest}, digest_second : {NoDigest}]

HashFirst ==
  /\ probe.digest_first = NoDigest
  /\ probe' = [probe EXCEPT !.digest_first = hash_request_payload(probe.first)]
  /\ UNCHANGED <<store, call, outcomes, calls, entry, notifications>>

HashSecond ==
  /\ probe.digest_second = NoDigest
  /\ probe' = [probe EXCEPT
                 !.digest_second = hash_request_payload(probe.second)]
  /\ UNCHANGED <<store, call, outcomes, calls, entry, notifications>>

NextHash == HashFirst \/ HashSecond

SpecHash == InitHash /\ [][NextHash]_vars

\* request_id and client_ref are free strings (schemas.py lines 14 and 16):
\* short ones, and ones that hold the delimiters and the text of the fields
\* that follow them in the normalized string
ShortIds == {<<"r1">>, <<"r2">>}

FollowingFields(request_id) ==
  <<"|">> \o join(<<<<"pair", TRADING_PAIR>>,
                    <<"quantity", <<ToString(Round6(DEFAULT_ORDER_QUANTITY))>>>>,
                    <<"request_id", request_id>>>>)

DelimiterIds ==
  ShortIds \cup {a \o FollowingFields(b) : a, b \in ShortIds}

DelimiterRefs ==
  {NoRef, <<"c">>} \cup {FollowingFields(a) : a \in ShortIds}

\* the payloads of trader.py lines 196-202 for these requests
DelimiterPayloads ==
  {Payload([IdleCall EXCEPT !.pair = TRADING_PAIR, !.action = action,
                            !.quantity = Round6(DEFAULT_ORDER_QUANTITY),
                            !.request.request_id = request_id,
                            !.request.client_ref = client_ref]) :
     action \in Actions, request_id \in DelimiterIds,
     client_ref \in DelimiterRefs}

InitDelimiter ==
  /\ trades = <<>>
  /\ balances = <<>>
  /\ sequence_tracker = <<>>
  /\ call = [p \in Procs |-> IdleCall]
  /\ outcomes = <<>>
  /\ calls = 0
  /\ entry = [trades |-> <<>>, balances |-> <<>>, sequence_tracker |-> <<>>]
  /\ notifications = <<>>
  /\ probe \in [first : DelimiterPayloads, second : DelimiterPayloads,
                 digest_first : {NoDigest}, digest_second : {NoDigest}]

SpecDelimiter == InitDelimiter /\ [][NextHash]_vars

(***************************************************************************)
(* Vocabulary of the properties                                            *)
(***************************************************************************)
Idle == \A p \in Procs : call[p].pc = "idle"

Ended == 1..Len(outcomes)

\* the call that ended last, when no call is in flight: entry is the store
\* as that call found it
LastEnded == Idle /\ outcomes # <<>> /\ outcomes[Len(outcomes)].n = calls

Last == outcomes[Len(outcomes)]

Responded(o) == o.response.outcome = "response"

Executed(o) == Responded(o) /\ o.response.message = "ok"

Rejected(o) == Responded(o) /\ o.response.status = "rejected"

\* identical (pair, action, quantity, request_id, client_ref)
SameRequest(a, b) ==
  /\ a.action = b.action
  /\ a.request.pair = b.request.pair
  /\ a.request.quantity = b.request.quantity
  /\ a.request.request_id = b.request.request_id
  /\ a.request.client_ref = b.request.client_ref

SameResult(a, b) ==
  /\ a.response.transaction_id = b.response.transaction_id
  /\ a.response.trade_id = b.response.trade_id
  /\ a.response.sequence_number = b.response.sequence_number
  /\ a.response.status = b.response.status

(***************************************************************************)
(* C1  Idempotence, as claimed: of two calls with identical (pair,         *)
(* action, quantity, request_id, client_ref) that ran one after the other  *)
(* and returned, both return the same transaction_id, trade_id,            *)
(* sequence_number and status, and the second one adjusts no balance.      *)
(***************************************************************************)
C1_IdempotentAnyOutcome ==
  \A i, j \in Ended :
    (i < j /\ SameRequest(outcomes[i], outcomes[j])
       /\ Responded(outcomes[i]) /\ Responded(outcomes[j]))
    => /\ SameResult(outcomes[i], outcomes[j])
       /\ outcomes[j].adjusted = 0

(***************************************************************************)
(* C1  amended: when the first of the two calls returned status executed,  *)
(* the second returns, with the same transaction_id, trade_id,             *)
(* sequence_number and status, it adjusts no balance, and the balances     *)
(* after it are the balances it found.                                     *)
(***************************************************************************)
C1_IdempotentAfterExecuted ==
  \A i, j \in Ended :
    (i < j /\ SameRequest(outcomes[i], outcomes[j])
       /\ Responded(outcomes[i]) /\ outcomes[i].response.status = "executed")
    => /\ Responded(outcomes[j])
       /\ SameResult(outcomes[i], outcomes[j])
       /\ outcomes[j].adjusted = 0
       /\ (LastEnded /\ j = Len(outcomes) => balances = entry.balances)

C1_Witness ==
  /\ LastEnded
  /\ \E i \in Ended :
       /\ i < Len(outcomes)
       /\ SameRequest(outcomes[i], Last)
       /\ Executed(outcomes[i])
       /\ Last.response.message = "duplicate"
       /\ Last.response.transaction_id # NoId

(***************************************************************************)
(* C2  No two trade records share a request_hash.                          *)
(***************************************************************************)
C2_UniqueRequestHash ==
  \A i, j \in 1..Len(trades) :
    i # j => trades[i].request_hash # trades[j].request_hash

(***************************************************************************)
(* C3  Every stored balance is >= 0.                                       *)
(***************************************************************************)
C3_NoNegativeBalance == \A a \in DOMAIN balances : balances[a] >= 0

(***************************************************************************)
(* C4  When calls run one at a time, the sequence numbers of the executed  *)
(* records of a (pair, action) stream are exactly 1..N, N the number of    *)
(* those records.                                                          *)
(***************************************************************************)
StreamRecords(pair, action) ==
  {i \in 1..Len(trades) :
     /\ trades[i].pair = pair
     /\ trades[i].action = action
     /\ trades[i].status = "executed"}

C4_SequenceContiguous ==
  \A k \in 1..Len(trades) :
    LET recs == StreamRecords(trades[k].pair, trades[k].action)
    IN {trades[i].sequence_number : i \in recs} = 1..Cardinality(recs)

C4_Witness ==
  \E k \in 1..Len(trades) :
    Cardinality(StreamRecords(trades[k].pair, trades[k].action)) >= 2

(***************************************************************************)
(* C5  Two records of one (pair, action) stream with different request     *)
(* hashes never carry the same sequence_number.                            *)
(***************************************************************************)
C5_SequenceClaimedOnce ==
  \A i, j \in 1..Len(trades) :
    (/\ i # j
     /\ trades[i].pair = trades[j].pair
     /\ trades[i].action = trades[j].action
     /\ trades[i].request_hash # trades[j].request_hash)
    => trades[i].sequence_number # trades[j].sequence_number

(***************************************************************************)
(* C6  A call that has ended, however it ended, committed both of its      *)
(* balance adjustments and its trade record, or none of the three.         *)
(***************************************************************************)
Recorded(o) ==
  \E i \in 1..Len(trades) :
    /\ Executed(o)
    /\ trades[i].id = o.response.trade_id

C6_AllOrNothing ==
  \A k \in Ended :
    \/ outcomes[k].adjusted = 0 /\ ~Recorded(outcomes[k])
    \/ outcomes[k].adjusted = 2 /\ Recorded(outcomes[k])

(***************************************************************************)
(* C7  Every adjust_balance changes the stored balance of its asset by     *)
(* exactly its delta, whatever other calls do between its read and its     *)
(* write: no adjustment is lost.                                           *)
(***************************************************************************)
C7_AdjustIsAtomic ==
  [][\A p \in Procs :
       (call[p].pc = "adjust_upsert" /\ call'[p].pc # "adjust_upsert")
       => LET a == Adjustment(call[p])
          IN balances'[a.asset] = get_balance(a.asset) + a.delta]_vars

(***************************************************************************)
(* C8  An executed BUY of quantity q at price p takes exactly p*q from     *)
(* the quote balance and adds exactly q to the base balance, an executed   *)
(* SELL takes q from the base balance and adds p*q to the quote balance,   *)
(* and no other balance changes (calls running one at a time; the          *)
(* balances before are those the call read after seeding, line 190).       *)
(***************************************************************************)
C8_Conservation ==
  (LastEnded /\ Executed(Last))
  => LET r == Last.response
         assets == parse_pair(r.pair)
         qty == QuantityAmount(r.quantity)
         cost == Cost(r.price, r.quantity)
         before == Last.balances
     IN /\ DOMAIN balances = DOMAIN before
        /\ \A a \in DOMAIN before \ {assets.base, assets.quote} :
             balances[a] = before[a]
        /\ r.action = "BUY" =>
             /\ balances[assets.quote] = before[assets.quote] - cost
             /\ balances[assets.base] = before[assets.base] + qty
        /\ r.action = "SELL" =>
             /\ balances[assets.base] = before[assets.base] - qty
             /\ balances[assets.quote] = before[assets.quote] + cost

(***************************************************************************)
(* C9  Rejection non-mutation, as claimed: a call that returns status      *)
(* rejected leaves the whole asset-to-balance mapping, the sequence        *)
(* tracker and the trade records as it found them.                         *)
(***************************************************************************)
C9_RejectionTouchesNothing ==
  (LastEnded /\ Rejected(Last))
  => /\ balances = entry.balances
     /\ sequence_tracker = entry.sequence_tracker
     /\ trades = entry.trades

(***************************************************************************)
(* C9  amended: a call that returns status rejected writes no trade        *)
(* record, leaves the sequence tracker unchanged and leaves every balance  *)
(* entry that existed before the call unchanged; the only entries it adds  *)
(* are the seeds of step 2, for those assets of its pair that had none     *)
(* (base default for the base asset, else quote default).                  *)
(***************************************************************************)
C9_RejectionOnlySeeds ==
  (LastEnded /\ Rejected(Last))
  => LET assets == parse_pair(Last.response.pair)
     IN /\ trades = entry.trades
        /\ sequence_tracker = entry.sequence_tracker
        /\ Last.adjusted = 0
        /\ \A a \in DOMAIN entry.balances :
             a \in DOMAIN balances /\ balances[a] = entry.balances[a]
        /\ DOMAIN balances \ DOMAIN entry.balances
             \subseteq {assets.base, assets.quote}
        /\ \A a \in DOMAIN balances \ DOMAIN entry.balances :
             balances[a] = IF a = assets.base THEN DEFAULT_BASE_BALANCE
                           ELSE DEFAULT_QUOTE_BALANCE

\* a rejection for insufficient funds, by a call that found balances
C9_Witness ==
  /\ LastEnded
  /\ Rejected(Last)
  /\ Last.response.message = "funds"
  /\ entry.balances # <<>>

(***************************************************************************)
(* C10  Sequence Guard decision: with next_expected = last_sequence + 1    *)
(* of the call's stream, a call that reaches the guard (its fingerprint    *)
(* is not recorded) and is not ended by the store gets next_expected when  *)
(* it supplied no sequence_number, its own number when that equals         *)
(* next_expected, the stale-sequence error when its number is smaller and  *)
(* the sequence-gap error when it is larger.                               *)
(***************************************************************************)
EntryLastSequence(pair, action) ==
  IF Stream(pair, action) \in DOMAIN entry.sequence_tracker
  THEN entry.sequence_tracker[Stream(pair, action)]
  ELSE 0

ReachedGuard(o) ==
  /\ o.response.outcome \in {"response", "ValueError"}
  /\ o.response.message # "duplicate"

C10_SequenceGuard ==
  (LastEnded /\ ReachedGuard(Last))
  => LET supplied == Last.request.sequence_number
         pair == upper(IF Last.request.pair # NoPair THEN Last.request.pair
                       ELSE TRADING_PAIR)
         next_expected == EntryLastSequence(pair, Last.action) + 1
         r == Last.response
     IN /\ supplied = NoSeq =>
             Responded(Last) /\ r.sequence_number = next_expected
        /\ (supplied # NoSeq /\ supplied = next_expected) =>
             Responded(Last) /\ r.sequence_number = supplied
        /\ (supplied # NoSeq /\ supplied < next_expected) =>
             r.outcome = "ValueError" /\ r.message = "stale"
        /\ supplied > next_expected =>
             r.outcome = "ValueError" /\ r.message = "gap"

C10_Witness ==
  /\ LastEnded
  /\ Last.response.outcome = "ValueError"
  /\ Last.response.message = "stale"
  /\ Last.request.sequence_number = 1

(***************************************************************************)
(* C11  Sequence errors touch no state, as claimed: a call that fails      *)
(* with the stale-sequence or the sequence-gap error leaves the trade      *)
(* records, the sequence tracker and the whole balances mapping as it      *)
(* found them.                                                             *)
(***************************************************************************)
SequenceError(o) == o.response.outcome = "ValueError"

\* the pair of a call after normalisation (line 186)
CallPair(o) ==
  upper(IF o.request.pair # NoPair THEN o.request.pair ELSE TRADING_PAIR)

C11_SequenceErrorTouchesNothing ==
  (LastEnded /\ SequenceError(Last))
  => /\ trades = entry.trades
     /\ sequence_tracker = entry.sequence_tracker
     /\ balances = entry.balances

(***************************************************************************)
(* C11  amended: a call that fails with the stale-sequence or the          *)
(* sequence-gap error writes no trade record, leaves the sequence tracker  *)
(* unchanged, adjusts no balance and leaves every balance entry that       *)
(* existed before the call unchanged; the only entries it adds are the     *)
(* seeds of step 2 for those assets of its pair that had none.             *)
(***************************************************************************)
C11_SequenceErrorOnlySeeds ==
  (LastEnded /\ SequenceError(Last))
  => LET assets == parse_pair(CallPair(Last))
     IN /\ trades = entry.trades
        /\ sequence_tracker = entry.sequence_tracker
        /\ Last.adjusted = 0
        /\ \A a \in DOMAIN entry.balances :
             a \in DOMAIN balances /\ balances[a] = entry.balances[a]
        /\ DOMAIN balances \ DOMAIN entry.balances
             \subseteq {assets.base, assets.quote}
        /\ \A a \in DOMAIN balances \ DOMAIN entry.balances :
             balances[a] = IF a = assets.base THEN DEFAULT_BASE_BALANCE
                           ELSE DEFAULT_QUOTE_BALANCE

\* a sequence-gap error of a call that found a recorded trade
C11_Witness ==
  /\ LastEnded
  /\ SequenceError(Last)
  /\ Last.response.message = "gap"
  /\ entry.trades # <<>>

(***************************************************************************)
(* C12  Duplicate replay: a call that finds a record with its fingerprint  *)
(* returns that record's pair, action, signal, price, quantity, status,    *)
(* trade id, transaction id, sequence number and recorded balances         *)
(* snapshot, whatever signal and price the call itself sampled, adjusts    *)
(* no balance and leaves the store as it found it.                         *)
(***************************************************************************)
Duplicate(o) == Responded(o) /\ o.response.message = "duplicate"

Verbatim(response, record) ==
  /\ response.request_hash = record.request_hash
  /\ response.pair = record.pair
  /\ response.action = record.action
  /\ response.rsi = record.rsi
  /\ response.price = record.price
  /\ response.quantity = record.quantity
  /\ response.status = record.status
  /\ response.trade_id = record.id
  /\ response.transaction_id = record.transaction_id
  /\ response.sequence_number = record.sequence_number
  /\ response.balances = record.metadata.balances

ExecutedRecords == {i \in 1..Len(trades) : trades[i].status = "executed"}

C13_NotifiedOncePerExecution ==
  Idle => Len(notifications) = Cardinality(ExecutedRecords)

(***************************************************************************)
(* C14  Sequence tracker lifecycle: in every step, whatever the calls in   *)
(* flight, the last_sequence of no (pair, action) decreases, and it        *)
(* changes only in a step that inserts an executed record of that stream;  *)
(* rejections, duplicates and sequence errors insert none and so never     *)
(* change it.                                                              *)
(***************************************************************************)
Streams == DOMAIN sequence_tracker

C14_TrackerLifecycle ==
  [][\A s \in DOMAIN sequence_tracker' :
       LET before == IF s \in Streams THEN sequence_tracker[s] ELSE 0
           after == sequence_tracker'[s]
       IN /\ after >= before
          /\ (s \notin Streams \/ after # before)
               => /\ Len(trades') = Len(trades) + 1
                  /\ trades'[Len(trades')].status = "executed"
                  /\ Stream(trades'[Len(trades')].pair,
                            trades'[Len(trades')].action) = s]_vars

(***************************************************************************)
(* C15  Fingerprint determinism: two payloads with the same key-value      *)
(* pairs get the same digest, in whatever order their keys were inserted   *)
(* and whenever the digests are computed; the digest is a function of the  *)
(* payload alone.                                                          *)
(***************************************************************************)
Items(payload) == {payload[k] : k \in 1..Len(payload)}

C15_FingerprintDeterministic ==
  (/\ probe.digest_first # NoDigest
   /\ probe.digest_second # NoDigest
   /\ Items(probe.first) = Items(probe.second))
  => probe.digest_first = probe.digest_second

\* both digests computed, of the same items inserted in different orders
C15_Witness ==
  /\ probe.digest_first # NoDigest
  /\ probe.digest_second # NoDigest
  /\ Items(probe.first) = Items(probe.second)
  /\ probe.first # probe.second

(***************************************************************************)
(* C16  Error channels of the buy and sell endpoints: a sequence error is  *)
(* answered with status 400, a failure of the store with status 500, and   *)
(* an unmet threshold or insufficient funds with an ordinary response      *)
(* (200) whose status is rejected.                                         *)
(***************************************************************************)
StoreFailure(o) == o.response.outcome = "IntegrityError"

C16_ErrorChannels ==
  \A k \in Ended :
    LET o == outcomes[k]
    IN /\ SequenceError(o) => o.http = 400
       /\ StoreFailure(o) => o.http = 500
       /\ o.response.message \in {"rsi", "funds"}
            => Responded(o) /\ o.response.status = "rejected" /\ o.http = 200
       /\ o.http = 400 => SequenceError(o)
       /\ o.http = 200 => Responded(o)

\* a call answered with 500 after a call answered with 200
C16_Witness ==
  /\ LastEnded
  /\ StoreFailure(Last)
  /\ Last.http = 500
  /\ \E k \in Ended : outcomes[k].http = 200

(***************************************************************************)
(* C17  Signal threshold check: a call that reaches the check goes on to   *)
(* the funds check exactly when force is set, or it is a BUY and the       *)
(* sampled signal is strictly below the oversold threshold, or it is a     *)
(* SELL and the signal is strictly above the overbought threshold.  Force  *)
(* skips nothing else: a forced call with a wrong sequence_number fails    *)
(* with the sequence error and a forced call without the funds is          *)
(* rejected.                                                               *)
(***************************************************************************)
\* the call got as far as the threshold check
ReachedThreshold(o) == (Responded(o) /\ ~Duplicate(o)) \/ StoreFailure(o)

\* the call got past the threshold check
PassedThreshold(o) ==
  \/ Executed(o)
  \/ Rejected(o) /\ o.response.message = "funds"
  \/ StoreFailure(o)

\* the balance the funds check of the call compares, and what it needs
Available(o) ==
  LET assets == parse_pair(CallPair(o))
      asset == IF o.action = "BUY" THEN assets.quote ELSE assets.base
  IN IF asset \in DOMAIN o.balances THEN o.balances[asset] ELSE 0

Needed(o) ==
  LET quantity == Round6(IF o.request.quantity # NoQty THEN o.request.quantity
                         ELSE DEFAULT_ORDER_QUANTITY)
  IN IF o.action = "BUY" THEN Cost(o.price, quantity)
     ELSE QuantityAmount(quantity)

C17_ThresholdCheck ==
  LastEnded
  => LET supplied == Last.request.sequence_number
         next_expected == EntryLastSequence(CallPair(Last), Last.action) + 1
     IN /\ ReachedThreshold(Last)
             => (PassedThreshold(Last)
                   <=> \/ Last.request.force
                       \/ Last.action = "BUY" /\ Last.rsi < RSI_OVERSOLD
                       \/ Last.action = "SELL" /\ Last.rsi > RSI_OVERBOUGHT)
        /\ (Last.request.force /\ supplied # NoSeq /\ supplied # next_expected)
             => SequenceError(Last) \/ Duplicate(Last)
        /\ (Last.request.force /\ ReachedThreshold(Last)
               /\ Available(Last) < Needed(Last))
             => Rejected(Last) /\ Last.response.message = "funds"

\* at a signal equal to the oversold threshold, a BUY that is rejected and
\* then a forced BUY that is executed
C17_Witness ==
  /\ LastEnded
  /\ Last.request.force
  /\ Last.action = "BUY"
  /\ Last.rsi = RSI_OVERSOLD
  /\ Executed(Last)
  /\ \E k \in Ended :
       /\ ~outcomes[k].request.force
       /\ outcomes[k].action = "BUY"
       /\ outcomes[k].rsi = RSI_OVERSOLD
       /\ Rejected(outcomes[k])
       /\ outcomes[k].response.message = "rsi"

(***************************************************************************)
(* C18  Funds sufficiency check, calls running one at a time: a call that  *)
(* got past the threshold check executes only if the balance it spends     *)
(* (quote for a BUY, base for a SELL) is at least what it needs            *)
(* (price*quantity, quantity); with less it returns status rejected with   *)
(* no trade id and no transaction id; with exactly as much it is accepted  *)
(* and the balance it spends is left at exactly 0.                         *)
(***************************************************************************)
Spent(o) ==
  LET assets == parse_pair(CallPair(o))
  IN IF o.action = "BUY" THEN assets.quote ELSE assets.base

C18_FundsCheck ==
  (LastEnded /\ PassedThreshold(Last))
  => /\ Executed(Last) => Available(Last) >= Needed(Last)
     /\ Available(Last) < Needed(Last)
          => /\ Rejected(Last)
             /\ Last.response.trade_id = NoId
             /\ Last.response.transaction_id = NoId
     /\ Available(Last) >= Needed(Last) => ~Rejected(Last)
     /\ (Executed(Last) /\ Available(Last) = Needed(Last))
          => balances[Spent(Last)] = 0

(***************************************************************************)
(* C19  Step ordering: the duplicate check comes before the sequence       *)
(* validation, the sequence validation before the threshold check, the     *)
(* threshold check before the funds check.  So the resubmission of an      *)
(* executed request gets the duplicate response whatever sequence_number   *)
(* it carries; a call with a wrong sequence_number whose fingerprint is    *)
(* not recorded fails with the sequence error whatever its signal and its  *)
(* funds; and a call whose signal and funds both fall short is rejected    *)
(* for the signal.                                                         *)
(***************************************************************************)
\* an earlier call with the same fingerprint fields was executed
Resubmission(o) ==
  \E k \in Ended :
    /\ outcomes[k].n < o.n
    /\ SameRequest(outcomes[k], o)
    /\ Executed(outcomes[k])

\* the signal of the call does not meet the threshold and force is unset
SignalShort(o) ==
  /\ ~o.request.force
  /\ \/ o.action = "BUY" /\ o.rsi >= RSI_OVERSOLD
     \/ o.action = "SELL" /\ o.rsi <= RSI_OVERBOUGHT

C19_StepOrdering ==
  LastEnded
  => LET supplied == Last.request.sequence_number
         next_expected == EntryLastSequence(CallPair(Last), Last.action) + 1
     IN /\ Resubmission(Last) => Duplicate(Last)
        /\ (~Resubmission(Last) /\ supplied # NoSeq /\ supplied # next_expected)
             => SequenceError(Last)
        /\ (ReachedThreshold(Last) /\ SignalShort(Last))
             => Rejected(Last) /\ Last.response.message = "rsi"

\* the resubmission of an executed request with its original sequence_number,
\* stale by now, is answered as a duplicate
C19_Witness ==
  /\ LastEnded
  /\ Resubmission(Last)
  /\ Last.request.sequence_number = 1
  /\ EntryLastSequence(CallPair(Last), Last.action) = 1
  /\ Duplicate(Last)

(***************************************************************************)
(* C20  Balance seeding never overwrites: in every interleaving of         *)
(* concurrent execute and status calls, a step of ensure_initial_balance   *)
(* leaves every existing balance entry with its value, and the only entry  *)
(* it may add is the seed of its own asset, which had no entry.            *)
(***************************************************************************)
Seeding(p) ==
  call[p].pc \in {"ensure_base", "ensure_base_insert",
                  "ensure_quote", "ensure_quote_insert"}

C20_SeedNeverOverwrites ==
  [][\A p \in Procs :
       (Seeding(p) /\ call'[p] # call[p])
       => /\ \A a \in DOMAIN balances :
               a \in DOMAIN balances' /\ balances'[a] = balances[a]
          /\ \A a \in DOMAIN balances' \ DOMAIN balances :
               a = EnsureAsset(call[p]) /\ balances'[a] = EnsureAmount(call[p])]_vars

\* a status call tried to seed the base asset after an execute call had
\* created and adjusted its entry: the entry keeps the adjusted value
C20_Witness ==
  /\ LastEnded
  /\ Last.action = "STATUS"
  /\ Last.response.outcome = "IntegrityError"
  /\ parse_pair(TRADING_PAIR).base \in DOMAIN balances
  /\ balances[parse_pair(TRADING_PAIR).base] # DEFAULT_BASE_BALANCE

(***************************************************************************)
(* C21  transaction_id is unique across the trade records in every         *)
(* reachable state; the check of the generated id and its one              *)
(* regeneration happen before any balance is mutated; and a call whose id  *)
(* still collides when the record is inserted ends as a failure that       *)
(* creates no trade record.                                                *)
(***************************************************************************)
TransactionIdUnique ==
  \A i, j \in 1..Len(trades) :
    trades[i].transaction_id = trades[j].transaction_id => i = j

RegeneratedBeforeMutation ==
  \A p \in Procs :
    (call[p].pc = "trade_exists_txn" /\ call'[p] # call[p])
    => /\ call[p].adjusted = 0
       /\ balances' = balances
       /\ call'[p].pc = "adjust_select"
       /\ call'[p].adjusted = 0
       /\ ~trade_exists_txn(call[p].transaction_id)
            => call'[p].transaction_id = call[p].transaction_id

CollisionCreatesNoRecord ==
  \A p \in Procs :
    (/\ call[p].pc = "record_trade"
     /\ call'[p] # call[p]
     /\ trade_exists_txn(call[p].transaction_id))
    => /\ trades' = trades
       /\ Len(outcomes') = Len(outcomes) + 1
       /\ outcomes'[Len(outcomes')].response.outcome = "IntegrityError"
       /\ outcomes'[Len(outcomes')].response.trade_id = NoId

C21_TransactionIdUnique ==
  /\ []TransactionIdUnique
  /\ [][RegeneratedBeforeMutation /\ CollisionCreatesNoRecord]_vars

\* a call whose regenerated id collided with a record ended as a failure
C21_Witness ==
  /\ LastEnded
  /\ Last.response.outcome = "IntegrityError"
  /\ Last.response.message = "trades.transaction_id"
  /\ Len(trades) = 1

(***************************************************************************)
(* C22  Rejections are not durable: the request_hash of a rejected call    *)
(* is not stored, so an identical retry right after it is not answered as  *)
(* a duplicate: it is checked again against its own freshly sampled signal *)
(* and the current balances, and when it is executed it takes the sequence *)
(* number the rejected call reported.                                      *)
(***************************************************************************)
\* call k was rejected and the call that ended last is its identical retry
RetryOfRejected(k) ==
  /\ outcomes[k].n = Last.n - 1
  /\ Rejected(outcomes[k])
  /\ SameRequest(outcomes[k], Last)
  /\ outcomes[k].request.sequence_number = Last.request.sequence_number

C22_RejectionsNotDurable ==
  LastEnded
  => /\ Rejected(Last) => ~trade_exists_hash(Last.response.request_hash)
     /\ \A k \in Ended :
          RetryOfRejected(k)
          => /\ ~Duplicate(Last)
             /\ IF SignalShort(Last)
                THEN Rejected(Last) /\ Last.response.message = "rsi"
                ELSE IF Available(Last) < Needed(Last)
                THEN Rejected(Last) /\ Last.response.message = "funds"
                ELSE \/ StoreFailure(Last)
                     \/ /\ Executed(Last)
                        /\ Last.response.sequence_number =
                             outcomes[k].response.sequence_number

\* a call rejected for its signal, then its identical retry executed under
\* the sequence number the rejection reported
C22_Witness ==
  /\ LastEnded
  /\ Executed(Last)
  /\ \E k \in Ended :
       /\ RetryOfRejected(k)
       /\ outcomes[k].response.message = "rsi"
       /\ outcomes[k].response.sequence_number = 1
       /\ Last.response.sequence_number = 1

SeedOf(asset) ==
  IF asset = parse_pair(TRADING_PAIR).base THEN DEFAULT_BASE_BALANCE
  ELSE DEFAULT_QUOTE_BALANCE

\* what the record's execution adds to the asset
EffectOn(record, asset) ==
  LET updates == _apply_balance_updates(record.action, record.pair,
                                        record.quantity, record.price)
  IN (IF updates[1].asset = asset THEN updates[1].delta ELSE 0)
       + (IF updates[2].asset = asset THEN updates[2].delta ELSE 0)

RECURSIVE EffectsOn(_, _)
EffectsOn(n, asset) ==
  IF n = 0 THEN 0 ELSE EffectsOn(n - 1, asset) + EffectOn(trades[n], asset)

C24_LedgerExplainedByLog ==
  Idle
  => \A asset \in DOMAIN balances :
       balances[asset] = SeedOf(asset) + EffectsOn(Len(trades), asset)

(***************************************************************************)
(* C25  Stream independence: a step of an execute call on stream (pair,    *)
(* action) leaves the sequence tracker entry of every other stream as it   *)
(* was, the opposite action of the same pair included; and the first       *)
(* record of every stream has sequence number 1, so the BUY and the SELL   *)
(* stream of one pair number their executions independently.               *)
(***************************************************************************)
OtherStreamsUnchanged ==
  \A p \in Procs :
    call'[p] # call[p]
    => \A s \in DOMAIN sequence_tracker :
         (s[1] # call[p].pair \/ s[2] # call[p].action)
         => /\ s \in DOMAIN sequence_tracker'
            /\ sequence_tracker'[s] = sequence_tracker[s]

StreamsStartAtOne ==
  \A i \in 1..Len(trades) :
    (\A j \in 1..(i - 1) :
       trades[j].pair # trades[i].pair \/ trades[j].action # trades[i].action)
    => trades[i].sequence_number = 1

C25_StreamIndependence ==
  /\ []StreamsStartAtOne
  /\ [][OtherStreamsUnchanged]_vars

\* a BUY and then a SELL executed on the same pair: each is number 1 of its
\* stream
C25_Witness ==
  /\ LastEnded
  /\ Len(trades) = 2
  /\ trades[1].pair = trades[2].pair
  /\ trades[1].action = "BUY" /\ trades[1].sequence_number = 1
  /\ trades[2].action = "SELL" /\ trades[2].sequence_number = 1
  /\ sequence_tracker[<<trades[1].pair, "BUY">>] = 1
  /\ sequence_tracker[<<trades[1].pair, "SELL">>] = 1

(***************************************************************************)
(* C26  Every persisted trade record has status executed: no sequence of   *)
(* execute calls writes a record with status rejected, so every duplicate  *)
(* response replays an executed result.                                    *)
(***************************************************************************)
C26_RecordsAreExecuted ==
  /\ \A i \in 1..Len(trades) : trades[i].status = "executed"
  /\ \A k \in Ended :
       Duplicate(outcomes[k]) => outcomes[k].response.status = "executed"

\* a rejected call left no record behind: the one record is that of the
\* executed call after it
C26_Witness ==
  /\ LastEnded
  /\ Len(outcomes) = 2
  /\ Rejected(outcomes[1])
  /\ Executed(Last)
  /\ Len(trades) = 1
  /\ trades[1].status = "executed"

(***************************************************************************)
(* C27  The dedup key ignores sequence_number and force: a request that    *)
(* agrees with an executed one on (pair, action, quantity, request_id,     *)
(* client_ref) has its request_hash, whatever its sequence_number and its  *)
(* force flag, and is answered as a duplicate of it: it is not             *)
(* sequence-validated and not executed, and the store stays as it found    *)
(* it but for the seeding.                                                 *)
(***************************************************************************)
C27_DedupKeyIgnoresSequenceAndForce ==
  LastEnded
  => \A k \in Ended :
       (/\ outcomes[k].n < Last.n
        /\ Executed(outcomes[k])
        /\ SameRequest(outcomes[k], Last))
       => /\ Duplicate(Last)
          /\ Last.response.request_hash = outcomes[k].response.request_hash
          /\ SameResult(outcomes[k], Last)
          /\ Last.adjusted = 0
          /\ trades = entry.trades
          /\ sequence_tracker = entry.sequence_tracker

\* the second request differs from the executed one in both its sequence
\* number, which would be a gap, and its force flag
C27_Witness ==
  /\ LastEnded
  /\ Len(outcomes) = 2
  /\ Executed(outcomes[1])
  /\ SameRequest(outcomes[1], Last)
  /\ outcomes[1].request.sequence_number = NoSeq
  /\ Last.request.sequence_number = 1
  /\ outcomes[1].request.force # Last.request.force
  /\ Duplicate(Last)

(***************************************************************************)
(* C28  Every trade record has quantity > 0: for every request quantity    *)
(* that validation accepts (quantity > 0), the quantity after rounding to  *)
(* 6 decimals, which the funds check, the balance adjustments and the      *)
(* record use, is still strictly positive.                                 *)
(***************************************************************************)
C28_ExecutedQuantityPositive ==
  \A i \in 1..Len(trades) : trades[i].quantity > 0

(***************************************************************************)
(* C29  For the pair of every call, parse_pair yields a non-empty base     *)
(* asset and a quote asset that differs from it, so the two balance        *)
(* adjustments of one execution act on two distinct ledger entries.        *)
(***************************************************************************)
C29_BaseAndQuoteDiffer ==
  \A p \in Procs :
    call[p].pc # "idle"
    => LET assets == parse_pair(call[p].pair)
       IN /\ assets.base # <<>>
          /\ assets.quote # <<>>
          /\ assets.base # assets.quote

(***************************************************************************)
(* C30  The normalized string of hash_request_payload is injective on the  *)
(* fingerprint fields: two requests that differ in at least one of pair,   *)
(* action, quantity, request_id and client_ref get different strings, also *)
(* when request_id or client_ref hold the delimiters '|' and ':'.          *)
(***************************************************************************)
C30_NormalizedStringInjective ==
  (/\ probe.digest_first # NoDigest
   /\ probe.digest_second # NoDigest
   /\ probe.first # probe.second)
  => probe.digest_first # probe.digest_second

====
